---- MODULE Spec2Model ----
(***************************************************************************)
(* Canvas-Tracker: the reconciliation pass check_canvas of                 *)
(* periodic_tasks.py (fetch, diff against modules.txt, batch into embeds,  *)
(* send to the channels in watchers.txt) and the embed batching of         *)
(* update_embed.                                                           *)
(*                                                                         *)
(* Strings are modelled by their content up to a base text: Text(src, n)   *)
(* is the first n characters of the base text src.  Two strings are equal  *)
(* exactly when their records are equal; len() is the field n.             *)
(***************************************************************************)
EXTENDS Integers, Sequences, FiniteSets, TLC

\* ------------------------------------------------------------ constants
MAX_IDENTIFIER_LENGTH == 100
EMBED_CHAR_LIMIT == 6000
\* update_embed closes an embed when it holds this many fields
FIELDS_PER_EMBED == 25
\* "Note: 11 is the length of the string "Module Item""
LABEL_ALLOWANCE == 11
\* len("...")
ELLIPSIS_LENGTH == 3

\* ------------------------------------------------------------ bounds
\* SpecBatch: the longest sequence of new items fed to update_embed
MaxNew == 27
\* SpecBatch: how many entries of a sequence may be oversized ones
MaxBig == 2
\* Spec: modules of the largest course, items of each module, chat channels
NumModules == 3
ItemsPerModule == 2
NumChannels == 2

\* ------------------------------------------------------------ strings
Text(src, n) == [src |-> src, n |-> n]

\* the name of a base text
Src(what, i, j) == <<what, i, j>>

\* an attribute the API object does not have
Missing == [src |-> Src("<missing>", 0, 0), n |-> 0]

hasattr(obj, attr) == obj[attr] # Missing

StrLen(s) == s.n

\* s[:k]
Slice(s, k) == [src |-> s.src, n |-> IF s.n < k THEN s.n ELSE k]

\* s + '\n': one line of a text file
Line(s) == <<s, "\n">>

\* f"{channel.id}", f"{module.id}": the decimal digits of id; and
\* int(channel_id.rstrip())
IdStr(id) ==
    Text(Src("digits", id, 0), IF id < 10 THEN 1 ELSE IF id < 100 THEN 2 ELSE 3)
ParseInt(line) == line[1].src[2]

Range(seq) == {seq[i] : i \in DOMAIN seq}

\* ------------------------------------------------------------ items
\* canvasapi.module.Module: has name, no title, no html_url
Module(id, name) ==
    [cls |-> "Module", id |-> id, name |-> name, title |-> Missing,
     html_url |-> Missing]

\* canvasapi.module.ModuleItem: has title, html_url unless it is a sub header
ModuleItem(id, title, url) ==
    [cls |-> "ModuleItem", id |-> id, name |-> Missing, title |-> title,
     html_url |-> url]

\* ------------------------------------------------------------ rendering
\* a name of MAX_IDENTIFIER_LENGTH characters is cut as well
get_field_value_cut_early(module) ==
    LET field == IF hasattr(module, "title") THEN module.title ELSE module.name
        cut == StrLen(field) >= MAX_IDENTIFIER_LENGTH
        shown == IF cut
                 THEN Slice(field, MAX_IDENTIFIER_LENGTH - ELLIPSIS_LENGTH)
                 ELSE field
    IN  [text |-> shown, ellipsis |-> cut,
         link |-> IF hasattr(module, "html_url") THEN module.html_url ELSE Missing]

\* The field value as its parts: the (possibly truncated) text, whether the
\* ellipsis was appended, and the link the text is wrapped with, if any.
get_field_value(module) ==
    LET field == IF hasattr(module, "title") THEN module.title ELSE module.name
        cut == StrLen(field) > MAX_IDENTIFIER_LENGTH
        shown == IF cut
                 THEN Slice(field, MAX_IDENTIFIER_LENGTH - ELLIPSIS_LENGTH)
                 ELSE field
    IN  [text |-> shown, ellipsis |-> cut,
         link |-> IF hasattr(module, "html_url") THEN module.html_url ELSE Missing]

\* len(field_value): text, "...", and "[", "](", ")" around text and link
ValueLen(v) ==
    StrLen(v.text) + (IF v.ellipsis THEN ELLIPSIS_LENGTH ELSE 0)
    + (IF v.link # Missing THEN 4 + StrLen(v.link) ELSE 0)

\* len("Module") and len("Module Item")
LabelLen(label) == IF label = "Module" THEN 6 ELSE 11

\* discord.Embed(title=f"New modules found for {course.name}:")
FirstEmbed(course_name) ==
    [title |-> [continued |-> FALSE, course |-> course_name], fields |-> <<>>]

\* discord.Embed(title=f"New modules for {course.name} (continued):")
ContinuedEmbed(course_name) ==
    [title |-> [continued |-> TRUE, course |-> course_name], fields |-> <<>>]

\* len of the title string
TitleLen(t) ==
    IF t.continued THEN 16 + StrLen(t.course) + 13 ELSE 22 + StrLen(t.course) + 1

RECURSIVE FieldsLen(_)
FieldsLen(fields) ==
    IF fields = <<>> THEN 0
    ELSE LabelLen(Head(fields).name) + ValueLen(Head(fields).value)
         + FieldsLen(Tail(fields))

\* discord.Embed.__len__: title plus every field's name and value
EmbedLen(embed) == TitleLen(embed.title) + FieldsLen(embed.fields)

\* embed.add_field(name=..., value=..., inline=False)
add_field(embed, label, value) ==
    [embed EXCEPT !.fields = Append(@, [name |-> label, value |-> value])]

\* the label update_embed gives an entry
FieldLabel(module) == IF module.cls = "Module" THEN "Module" ELSE "Module Item"

\* ------------------------------------------------------------ batching
\* line 116: the embed is closed before the field is added
OverLimit(embed, field_value) ==
    LABEL_ALLOWANCE + ValueLen(field_value) + EmbedLen(embed) > EMBED_CHAR_LIMIT

\* mutant: the embed is closed one field late
IsFullLate(num_fields) == num_fields = FIELDS_PER_EMBED + 1

\* line 128: the embed is closed after the field is added
IsFull(num_fields) == num_fields = FIELDS_PER_EMBED

\* update_embed(embed, module, num_fields, embed_list), with the course name of
\* the enclosing loop; returns the new embed, num_fields and embed_list
update_embed(embed, module, num_fields, embed_list, course_name) ==
    LET field_value == get_field_value(module)
        over == OverLimit(embed, field_value)
        list1 == IF over THEN Append(embed_list, embed) ELSE embed_list
        embed1 == IF over THEN ContinuedEmbed(course_name) ELSE embed
        num1 == IF over THEN 0 ELSE num_fields
        embed2 == add_field(embed1, FieldLabel(module), field_value)
        num2 == num1 + 1
        full == IsFull(num2)
    IN  [embed |-> IF full THEN ContinuedEmbed(course_name) ELSE embed2,
         num_fields |-> IF full THEN 0 ELSE num2,
         embed_list |-> IF full THEN Append(list1, embed2) ELSE list1]

\* mutant: the embed in progress is never appended
CloseLastForgotten(embed, num_fields, embed_list) == embed_list

\* lines 211-212: if curr_num_fields: embeds_to_send.append(curr_embed)
CloseLast(embed, num_fields, embed_list) ==
    IF num_fields # 0 THEN Append(embed_list, embed) ELSE embed_list

\* ------------------------------------------------------------ diffing
\* mutant: an item's line is its title even when it has a link
to_write_title(module) ==
    IF module.cls = "Module" THEN Line(module.name) ELSE Line(module.title)

\* lines 156-162: the line handle_module writes for an entry
to_write(module) ==
    IF module.cls = "Module" THEN Line(module.name)
    ELSE IF hasattr(module, "html_url") THEN Line(module.html_url)
    ELSE Line(module.title)

\* mutant: the entry's name or title is looked up, not the line written
IsNewByTitle(module, existing_modules) ==
    Line(IF hasattr(module, "title") THEN module.title ELSE module.name)
        \notin existing_modules

\* line 166: if not to_write in existing_modules
IsNew(module, existing_modules) == to_write(module) \notin existing_modules

\* The locals of one course's pass: the lines written to modules.txt so far,
\* curr_embed, curr_num_fields, embeds_to_send, and (history) the entries
\* handed to update_embed.
StartState(course_name) ==
    [file |-> <<>>, embed |-> FirstEmbed(course_name), num_fields |-> 0,
     embed_list |-> <<>>, news |-> <<>>]

\* mutant: the line is written only for an entry that is new
handle_module_new_only(module, st, existing_modules, course_name) ==
    IF IsNew(module, existing_modules)
    THEN LET u == update_embed(st.embed, module, st.num_fields,
                               st.embed_list, course_name)
         IN  [file |-> Append(st.file, to_write(module)), embed |-> u.embed,
              num_fields |-> u.num_fields, embed_list |-> u.embed_list,
              news |-> Append(st.news, module)]
    ELSE st

\* mutant: the entry is reported but its line is never written to the file
handle_module_unwritten(module, st, existing_modules, course_name) ==
    IF IsNew(module, existing_modules)
    THEN LET u == update_embed(st.embed, module, st.num_fields,
                               st.embed_list, course_name)
         IN  [file |-> st.file, embed |-> u.embed,
              num_fields |-> u.num_fields, embed_list |-> u.embed_list,
              news |-> Append(st.news, module)]
    ELSE st

\* handle_module(module, modules_file, existing_modules, curr_embed,
\*               curr_embed_num_fields, embed_list)
handle_module(module, st, existing_modules, course_name) ==
    LET written == Append(st.file, to_write(module))
    IN  IF IsNew(module, existing_modules)
        THEN LET u == update_embed(st.embed, module, st.num_fields,
                                   st.embed_list, course_name)
             IN  [file |-> written, embed |-> u.embed,
                  num_fields |-> u.num_fields, embed_list |-> u.embed_list,
                  news |-> Append(st.news, module)]
        ELSE [st EXCEPT !.file = written]

\* lines 199-209 over the entries fetched so far
RECURSIVE HandleAll(_, _, _, _)
HandleAll(entries, st, existing_modules, course_name) ==
    IF entries = <<>> THEN st
    ELSE HandleAll(Tail(entries),
                   handle_module(Head(entries), st, existing_modules, course_name),
                   existing_modules, course_name)

\* ------------------------------------------------------------ remote trees
\* A course's tree: a sequence of [module, items].
\* lines 199-209: the entries check_canvas handles, in order: every module
\* that has a name, followed by those of its items that have a title
RECURSIVE Walk(_)
Walk(tree) ==
    IF tree = <<>> THEN <<>>
    ELSE LET m == Head(tree)
         IN  (IF hasattr(m.module, "name")
              THEN <<m.module>>
                   \o SelectSeq(m.items, LAMBDA it : hasattr(it, "title"))
              ELSE <<>>)
             \o Walk(Tail(tree))

\* CanvasUtil.get_modules: every module followed by its items
RECURSIVE get_modules(_)
get_modules(tree) ==
    IF tree = <<>> THEN <<>>
    ELSE <<Head(tree).module>> \o Head(tree).items \o get_modules(Tail(tree))

\* nothing is written: the file is left empty
write_no_modules(modules) == <<>>

\* CanvasUtil.write_modules_to_file: the content written, one id per line
write_modules_to_file(modules) == [i \in DOMAIN modules |-> Line(IdStr(modules[i].id))]

\* Where a request of the walk can raise: course.get_modules() before the
\* first module, or module.get_module_items() after a module's own line.
FailPoints(entries) ==
    {0} \cup {k \in 1..Len(entries) : entries[k].cls = "Module"}

\* Module j: module 2 carries a name longer than MAX_IDENTIFIER_LENGTH
RemoteModule(j) ==
    Module(10 * j, Text(Src("module", j, 0), IF j = 2 THEN 150 ELSE 12))

\* Item k of module j: item 2 is a sub header (no html_url) with the same
\* title in every module; the others are linked pages
RemoteItem(j, k) ==
    IF k = 2
    THEN ModuleItem(10 * j + k, Text(Src("title", 0, 2), 8), Missing)
    ELSE ModuleItem(10 * j + k, Text(Src("title", j, k), 20),
                    Text(Src("url", j, k), 45))

\* the first n modules, each with its first m items
Published(n, m) ==
    [j \in 1..n |->
        [module |-> RemoteModule(j), items |-> [k \in 1..m |-> RemoteItem(j, k)]]]

\* one module whose two items carry links of 2950 characters
Bulky ==
    << [module |-> Module(90, Text(Src("module", 9, 0), 12)),
        items |-> [k \in 1..2 |->
                     ModuleItem(90 + k, Text(Src("title", 9, k), 20),
                                Text(Src("url", 9, k), 2950))]] >>

Courses == {1, 2}

\* the trees a course's remote content moves between
TreeSet(c) ==
    IF c = 1
    THEN {Published(0, 0), Published(1, ItemsPerModule),
          Published(NumModules, ItemsPerModule), Published(NumModules, 0), Bulky}
    ELSE {Published(0, 0), Published(1, 1)}
Channels == 1..NumChannels

\* course.name
CourseName(c) == Text(Src("course", c, 0), 7)

\* a folder of COURSES_DIRECTORY: a course id, or a stray name
CourseDir(c) == [isdigit |-> TRUE, id |-> c]
StrayDir == [isdigit |-> FALSE, id |-> 0]

\* ------------------------------------------------------------ state
VARIABLES
    remote,          \* [Courses -> tree]: what Canvas serves for each course
    resolvable,      \* the channel ids bot.get_channel still resolves
    dirs,            \* the folders of COURSES_DIRECTORY
    modules_txt,     \* [Courses -> lines of modules.txt]
    watchers_txt,    \* [Courses -> lines of watchers.txt]
    pc,              \* where the pass is: "sleep", "loop", "watchers", "send"
    courses,         \* the folders the for loop has still to visit
    embeds_to_send,  \* the embeds of the course being sent
    w,               \* the lines of watchers.txt still to iterate
    channel,         \* the channel id being sent to
    next_embed,      \* index in embeds_to_send of the embed being sent
    listing,         \* history: the folders listed when the pass started
    attempted,       \* history: the courses whose try block was entered
    failed,          \* history: the courses whose try block raised
    cur,             \* history: the course in hand and how far it got
    pre,             \* history: its files before its try block
    sent,            \* history: <<channel, embed index>> sent for cur.course
    synced,          \* history: [Courses -> the last pass fetched the whole
                     \*   tree and the tree has not changed since]
    embed,           \* SpecBatch: update_embed's embed
    num_fields,      \* SpecBatch: update_embed's num_fields
    embed_list,      \* SpecBatch: update_embed's embed_list
    fed,             \* SpecBatch: the new items handed to update_embed
    closed,          \* SpecBatch: lines 211-212 have run
    mix,             \* SpecBatch: the kinds of entries the sequence is made of
    name_txt,        \* [Courses -> lines of course_name.txt]
    who,             \* whose pass the pass variables are: "hourly", "command"
    parked,          \* the other pass, suspended in a send or not running
    pending,         \* the `track enable` commands suspended at ctx.send
    file,            \* SpecCalls: the lines of a watchers.txt
    call,            \* SpecCalls: the last call made on it and what it returned
    last,            \* SpecCalls: the call before that
    given,           \* history: <<course, entry id, channel>> of every entry
                     \*   the pass has delivered, kept while a pass is in
                     \*   progress
    ran              \* history: the triggers that have started a pass since
                     \*   no pass was in progress

passVars == <<pc, courses, embeds_to_send, w, channel, next_embed>>
diskVars == <<dirs, modules_txt, watchers_txt>>
histVars == <<listing, attempted, failed, cur, pre, sent, synced>>
batchVars == <<embed, num_fields, embed_list, fed, closed, mix>>
cmdVars == <<name_txt, who, parked, pending>>
callVars == <<file, call, last>>
logVars == <<given, ran>>
vars ==
    <<remote, resolvable, diskVars, passVars, histVars, batchVars, cmdVars,
      callVars, logVars>>

NoCourse ==
    [course |-> 0, stage |-> "none", err |-> "none", fetched |-> <<>>,
     news |-> <<>>, repeat |-> FALSE]

NoFiles == [modules |-> <<>>, watchers |-> <<>>, exists |-> FALSE]

FilesOf(c) ==
    [modules |-> modules_txt[c], watchers |-> watchers_txt[c],
     exists |-> CourseDir(c) \in dirs]

\* the lines of watchers.txt after the channels 1..n enabled tracking in turn
WatcherLines(n) == [i \in 1..n |-> Line(IdStr(i))]

\* os.listdir(COURSES_DIRECTORY): the folders, here by ascending id with the
\* stray folder after the first
RECURSIVE listdir(_)
listdir(S) ==
    IF S = {} THEN <<>>
    ELSE LET numbered == {d \in S : d.isdigit}
             first == IF numbered # {}
                      THEN CHOOSE d \in numbered : \A e \in numbered : d.id <= e.id
                      ELSE CHOOSE d \in S : TRUE
         IN  IF first.isdigit /\ StrayDir \in S
             THEN <<first, StrayDir>> \o listdir(S \ {first, StrayDir})
             ELSE <<first>> \o listdir(S \ {first})

BatchIdle ==
    /\ embed = FirstEmbed(CourseName(1))
    /\ num_fields = 0
    /\ embed_list = <<>>
    /\ fed = <<>>
    /\ closed = FALSE
    /\ mix = [filler |-> "small", oversized |-> "big"]

\* a pass that is not running
NotRunning ==
    [pc |-> "sleep", courses |-> <<>>, embeds_to_send |-> <<>>, w |-> <<>>,
     channel |-> 0, next_embed |-> 0, listing |-> {}, attempted |-> {},
     failed |-> {}, cur |-> NoCourse, pre |-> NoFiles, sent |-> <<>>,
     given |-> <<>>]

\* no command is in progress
CmdIdle ==
    /\ who = "hourly"
    /\ parked = NotRunning
    /\ pending = {}

\* no pass has run
LogIdle ==
    /\ given = <<>>
    /\ ran = {}

NoCall == [op |-> "none", id |-> 0, ret |-> FALSE, before |-> <<>>]

CallIdle ==
    /\ file = <<>>
    /\ call = NoCall
    /\ last = NoCall

\* Every course is tracked: channels enabled it in turn (Main.track), which
\* left watchers.txt with their ids and modules.txt with the ids of the
\* modules published by then (none, for a course enabled before anything was
\* published).
Init ==
    /\ remote \in {r \in [Courses -> UNION {TreeSet(c) : c \in Courses}] :
                      \A c \in Courses : r[c] \in TreeSet(c)}
    /\ resolvable = Channels
    /\ dirs = {CourseDir(c) : c \in Courses} \cup {StrayDir}
    /\ \E before \in SUBSET Courses :
         modules_txt =
           [c \in Courses |->
              IF c \in before
              THEN write_modules_to_file(get_modules(remote[c]))
              ELSE <<>>]
    /\ watchers_txt = [c \in Courses |-> WatcherLines(NumChannels + 1 - c)]
    /\ pc = "sleep"
    /\ courses = <<>>
    /\ embeds_to_send = <<>>
    /\ w = <<>>
    /\ channel = 0
    /\ next_embed = 0
    /\ listing = {}
    /\ attempted = {}
    /\ failed = {}
    /\ cur = NoCourse
    /\ pre = NoFiles
    /\ sent = <<>>
    /\ synced = [c \in Courses |-> FALSE]
    /\ BatchIdle
    /\ name_txt = [c \in Courses |-> <<Line(CourseName(c))>>]
    /\ CmdIdle
    /\ LogIdle
    /\ CallIdle

\* ------------------------------------------------------------ environment
\* the course's content changes on Canvas
RemoteChange(c) ==
    /\ pc = "sleep"
    /\ \E t \in TreeSet(c) \ {remote[c]} : remote' = [remote EXCEPT ![c] = t]
    /\ synced' = [synced EXCEPT ![c] = FALSE]
    /\ UNCHANGED <<resolvable, diskVars, passVars, listing, attempted, failed,
                   cur, pre, sent, batchVars,
                   cmdVars, callVars, logVars>>

\* a channel is deleted on Discord: bot.get_channel returns None from now on
ChannelDeleted(ch) ==
    /\ pc = "sleep"
    /\ ch \in resolvable
    /\ resolvable' = resolvable \ {ch}
    /\ UNCHANGED <<remote, diskVars, passVars, histVars, batchVars,
                   cmdVars, callVars, logVars>>

\* ------------------------------------------------------------ check_canvas
\* lines 173-174: the pass starts and lists COURSES_DIRECTORY
StartPass ==
    /\ pc = "sleep"
    /\ dirs # {}
    /\ courses' = listdir(dirs)
    /\ pc' = "loop"
    /\ listing' = dirs
    /\ attempted' = {}
    /\ failed' = {}
    /\ cur' = NoCourse
    /\ pre' = NoFiles
    /\ sent' = <<>>
    /\ ran' = ran \cup {who}
    /\ UNCHANGED <<remote, resolvable, diskVars, embeds_to_send, w, channel,
                   next_embed, synced, batchVars, cmdVars, callVars, given>>

\* mutant: the try block encloses the for loop, so an exception ends the pass
OnExceptionOutsideLoop(rest) == <<>>

\* line 221: except Exception inside the for loop: the folders still to visit
OnException(rest) == rest

\* line 178: a folder whose name is not a number is passed over
SkipFolder ==
    /\ pc = "loop"
    /\ courses # <<>>
    /\ ~Head(courses).isdigit
    /\ courses' = Tail(courses)
    /\ UNCHANGED <<remote, resolvable, diskVars, pc, embeds_to_send, w, channel,
                   next_embed, histVars, batchVars,
                   cmdVars, callVars, logVars>>

\* line 181: CANVAS_INSTANCE.get_course raises
GetCourseFails(err) ==
    /\ pc = "loop"
    /\ courses # <<>>
    /\ Head(courses).isdigit
    /\ LET c == Head(courses).id
       IN  /\ attempted' = attempted \cup {c}
           /\ failed' = failed \cup {c}
           /\ cur' = [NoCourse EXCEPT !.course = c, !.stage = "get_course_failed",
                                      !.err = err]
           /\ pre' = FilesOf(c)
    /\ sent' = <<>>
    /\ courses' = OnException(Tail(courses))
    /\ UNCHANGED <<remote, resolvable, diskVars, pc, embeds_to_send, w, channel,
                   next_embed, listing, synced, batchVars,
                   cmdVars, callVars, logVars>>

\* util.create_file_if_not_exists(modules_file / watchers_file), lines
\* 187-188.  util.py defines no function of this name (its ensure_file_exists
\* makes the folders and opens the file with 'a'); modelled after the
\* storage contract: the folder and its files exist afterwards, existing
\* content kept.
create_file_if_not_exists(c) == dirs \cup {CourseDir(c)}

\* lines 181-209 with a request of the walk raising after `k` entries: the
\* file was opened with 'w' and holds the lines written until then
TreeFails(err) ==
    /\ pc = "loop"
    /\ courses # <<>>
    /\ Head(courses).isdigit
    /\ LET c == Head(courses).id
           entries == Walk(remote[c])
           existing_modules == Range(modules_txt[c])
       IN  \E k \in FailPoints(entries) :
             LET st == HandleAll(SubSeq(entries, 1, k), StartState(CourseName(c)),
                                 existing_modules, CourseName(c))
             IN  /\ dirs' = create_file_if_not_exists(c)
                 /\ modules_txt' = [modules_txt EXCEPT ![c] = st.file]
                 /\ attempted' = attempted \cup {c}
                 /\ failed' = failed \cup {c}
                 /\ cur' = [NoCourse EXCEPT !.course = c, !.stage = "tree_failed",
                                            !.err = err]
                 /\ pre' = FilesOf(c)
                 /\ synced' = [synced EXCEPT ![c] = FALSE]
    /\ sent' = <<>>
    /\ courses' = OnException(Tail(courses))
    /\ UNCHANGED <<remote, resolvable, watchers_txt, pc, embeds_to_send, w,
                   channel, next_embed, listing, batchVars,
                   cmdVars, callVars, logVars>>

\* lines 181-215: the course and its whole tree are fetched, modules.txt is
\* rewritten, the embeds are built and, if there are any, watchers.txt is
\* opened
Reconcile ==
    /\ pc = "loop"
    /\ courses # <<>>
    /\ Head(courses).isdigit
    /\ LET c == Head(courses).id
           entries == Walk(remote[c])
           existing_modules == Range(modules_txt[c])
           st == HandleAll(entries, StartState(CourseName(c)), existing_modules,
                           CourseName(c))
           embeds == CloseLast(st.embed, st.num_fields, st.embed_list)
       IN  /\ dirs' = create_file_if_not_exists(c)
           /\ modules_txt' = [modules_txt EXCEPT ![c] = st.file]
           /\ embeds_to_send' = embeds
           /\ IF embeds # <<>>
              THEN /\ w' = watchers_txt[c]
                   /\ pc' = "watchers"
                   /\ courses' = courses
              ELSE /\ w' = <<>>
                   /\ pc' = "loop"
                   /\ courses' = Tail(courses)
           /\ attempted' = attempted \cup {c}
           /\ cur' = [course |-> c,
                      stage |-> IF embeds # <<>> THEN "sending" ELSE "done",
                      err |-> "none", fetched |-> entries, news |-> st.news,
                      repeat |-> synced[c]]
           /\ pre' = FilesOf(c)
           /\ synced' = [synced EXCEPT ![c] = TRUE]
    /\ sent' = <<>>
    /\ UNCHANGED <<remote, resolvable, watchers_txt, channel, next_embed,
                   listing, failed, batchVars,
                   cmdVars, callVars, logVars>>

\* line 216, file exhausted: the course is done
WatchersDone ==
    /\ pc = "watchers"
    /\ w = <<>>
    /\ pc' = "loop"
    /\ courses' = Tail(courses)
    /\ cur' = [cur EXCEPT !.stage = "done"]
    /\ UNCHANGED <<remote, resolvable, diskVars, embeds_to_send, w, channel,
                   next_embed, listing, attempted, failed, pre, sent, synced,
                   batchVars, cmdVars, callVars, logVars>>

\* lines 216-219: the next line resolves to a channel; the first send starts
ResolveChannel ==
    /\ pc = "watchers"
    /\ w # <<>>
    /\ ParseInt(Head(w)) \in resolvable
    /\ channel' = ParseInt(Head(w))
    /\ next_embed' = 1
    /\ pc' = "send"
    /\ UNCHANGED <<remote, resolvable, diskVars, courses, embeds_to_send, w,
                   histVars, batchVars,
                   cmdVars, callVars, logVars>>

\* lines 217-219: bot.get_channel returns None and channel.send raises
\* AttributeError, caught at line 221
ChannelUnresolved ==
    /\ pc = "watchers"
    /\ w # <<>>
    /\ ParseInt(Head(w)) \notin resolvable
    /\ channel' = ParseInt(Head(w))
    /\ cur' = [cur EXCEPT !.stage = "unresolved"]
    /\ failed' = failed \cup {cur.course}
    /\ pc' = "loop"
    /\ courses' = OnException(Tail(courses))
    /\ UNCHANGED <<remote, resolvable, diskVars, embeds_to_send, w, next_embed,
                   listing, attempted, pre, sent, synced, batchVars,
                   cmdVars, callVars, logVars>>

\* how many fields the embeds before embed number k hold
RECURSIVE FieldsBefore(_, _)
FieldsBefore(embeds, k) ==
    IF k <= 1 THEN 0
    ELSE FieldsBefore(embeds, k - 1) + Len(embeds[k - 1].fields)

\* the new entries whose fields embed number k of embeds_to_send holds:
\* update_embed adds one field per new entry, in the order of the walk
EntriesIn(k) ==
    LET first == FieldsBefore(embeds_to_send, k)
    IN  [i \in 1..Len(embeds_to_send[k].fields) |-> cur.news[first + i]]

\* line 219: await channel.send(embed=element) returns
SendOk ==
    /\ pc = "send"
    /\ sent' = Append(sent, <<channel, next_embed>>)
    /\ given' = given \o [i \in DOMAIN EntriesIn(next_embed) |->
                            <<cur.course, EntriesIn(next_embed)[i].id, channel>>]
    /\ IF next_embed < Len(embeds_to_send)
       THEN /\ next_embed' = next_embed + 1
            /\ UNCHANGED <<pc, w>>
       ELSE /\ next_embed' = 0
            /\ pc' = "watchers"
            /\ w' = Tail(w)
    /\ UNCHANGED <<remote, resolvable, diskVars, courses, embeds_to_send, channel,
                   listing, attempted, failed, cur, pre, synced, batchVars,
                   cmdVars, callVars, ran>>

\* line 219: await channel.send(embed=element) raises, caught at line 221
SendFails ==
    /\ pc = "send"
    /\ cur' = [cur EXCEPT !.stage = "send_failed"]
    /\ failed' = failed \cup {cur.course}
    /\ pc' = "loop"
    /\ courses' = OnException(Tail(courses))
    /\ UNCHANGED <<remote, resolvable, diskVars, embeds_to_send, w, channel,
                   next_embed, listing, attempted, pre, sent, synced, batchVars,
                   cmdVars, callVars, logVars>>

\* the for loop ends; check_canvas_hourly sleeps (lines 49-51).  The log of
\* deliveries is kept until no pass is in progress.
EndPass ==
    /\ pc = "loop"
    /\ courses = <<>>
    /\ pc' = "sleep"
    /\ embeds_to_send' = <<>>
    /\ w' = <<>>
    /\ channel' = 0
    /\ next_embed' = 0
    /\ listing' = {}
    /\ attempted' = {}
    /\ failed' = {}
    /\ cur' = NoCourse
    /\ pre' = NoFiles
    /\ sent' = <<>>
    /\ IF parked.pc = "sleep"
       THEN /\ given' = <<>>
            /\ ran' = {}
            /\ parked' = [parked EXCEPT !.given = <<>>]
       ELSE UNCHANGED <<given, ran, parked>>
    /\ UNCHANGED <<remote, resolvable, diskVars, courses, synced, batchVars,
                   name_txt, who, pending, callVars>>

Next ==
    \/ \E c \in Courses : RemoteChange(c)
    \/ \E ch \in Channels : ChannelDeleted(ch)
    \/ StartPass
    \/ SkipFolder
    \/ \E err \in {"transient", "revoked"} : GetCourseFails(err)
    \/ \E err \in {"transient", "revoked"} : TreeFails(err)
    \/ Reconcile
    \/ WatchersDone
    \/ ResolveChannel
    \/ ChannelUnresolved
    \/ SendOk
    \/ SendFails
    \/ EndPass

Spec == Init /\ [][Next]_vars

\* ------------------------------------------------------------ batching alone
\* The new entries of one course, handed to update_embed one after the other
\* as lines 199-209 do, then lines 211-212.  A sequence is made of ordinary
\* entries of one kind and at most MaxBig oversized entries of one kind.

\* entry number i of a sequence, of the given kind
NewEntry(kind, i) ==
    CASE kind = "small" ->
           Module(i, Text(Src("small", 0, 0), 12))
      [] kind = "medium" ->
           ModuleItem(i, Text(Src("long", 0, 0), 150), Text(Src("url", 0, 0), 283))
      [] kind = "big" ->
           ModuleItem(i, Text(Src("title", 0, 0), 20), Text(Src("url", 1, 0), 3000))
      [] OTHER ->
           ModuleItem(i, Text(Src("title", 0, 0), 20), Text(Src("url", 2, 0), 6000))

IsOversized(module) == StrLen(module.html_url) >= 3000

Oversized(entries) == {i \in DOMAIN entries : IsOversized(entries[i])}

PassIdle ==
    /\ remote = [c \in Courses |-> Published(0, 0)]
    /\ resolvable = Channels
    /\ dirs = {}
    /\ modules_txt = [c \in Courses |-> <<>>]
    /\ watchers_txt = [c \in Courses |-> <<>>]
    /\ pc = "sleep"
    /\ courses = <<>>
    /\ embeds_to_send = <<>>
    /\ w = <<>>
    /\ channel = 0
    /\ next_embed = 0
    /\ listing = {}
    /\ attempted = {}
    /\ failed = {}
    /\ cur = NoCourse
    /\ pre = NoFiles
    /\ sent = <<>>
    /\ synced = [c \in Courses |-> FALSE]
    /\ name_txt = [c \in Courses |-> <<>>]
    /\ CmdIdle
    /\ LogIdle

InitBatch ==
    /\ PassIdle
    /\ CallIdle
    /\ embed = FirstEmbed(CourseName(1))
    /\ num_fields = 0
    /\ embed_list = <<>>
    /\ fed = <<>>
    /\ closed = FALSE
    /\ mix \in [filler : {"small", "medium"}, oversized : {"big", "huge"}]

\* lines 201-203 / 207-209 for one new entry
Feed ==
    /\ ~closed
    /\ Len(fed) < MaxNew
    /\ \E kind \in {mix.filler, mix.oversized} :
         /\ kind = mix.oversized => Cardinality(Oversized(fed)) < MaxBig
         /\ LET module == NewEntry(kind, Len(fed) + 1)
                u == update_embed(embed, module, num_fields, embed_list,
                                  CourseName(1))
            IN  /\ embed' = u.embed
                /\ num_fields' = u.num_fields
                /\ embed_list' = u.embed_list
                /\ fed' = Append(fed, module)
    /\ UNCHANGED <<remote, resolvable, diskVars, passVars, histVars, closed, mix,
                   cmdVars, callVars, logVars>>

\* lines 211-212
Close ==
    /\ ~closed
    /\ embed_list' = CloseLast(embed, num_fields, embed_list)
    /\ closed' = TRUE
    /\ UNCHANGED <<remote, resolvable, diskVars, passVars, histVars, embed,
                   num_fields, fed, mix, cmdVars, callVars, logVars>>

NextBatch == Feed \/ Close

SpecBatch == InitBatch /\ [][NextBatch]_vars

\* ------------------------------------------------------------ commands
\* Main.track and Main.update_courses, run by the event loop while the
\* hourly pass is suspended in a send or asleep.  A coroutine runs until its
\* next await: the awaits are channel.send (periodic_tasks.py:219) and
\* ctx.send (commands.py:106, 112, 120, 122, 137).

\* how many `track enable` commands may be suspended at once
MaxPending == 1

\* the channels the commands are typed in
Callers == {1, 2}

\* util.ensure_file_exists on a file of the course's folder: the folders
\* are made, the file is opened with 'a' (its content stays)
ensure_file_exists(c) == dirs \cup {CourseDir(c)}

\* the id is written whether it is on file or not
store_channel_unchecked(ch, lines) ==
    [added |-> TRUE, lines |-> Append(lines, Line(IdStr(ch)))]

\* Main.store_channel_in_file on the lines of watchers.txt
store_channel_in_file(ch, lines) ==
    LET id_to_add == Line(IdStr(ch))
    IN  IF \E i \in DOMAIN lines : lines[i] = id_to_add
        THEN [added |-> FALSE, lines |-> lines]
        ELSE [added |-> TRUE, lines |-> Append(lines, id_to_add)]

\* the file is opened with 'w' and nothing is written back
delete_every_channel(ch, lines) ==
    [id_found |-> \E i \in DOMAIN lines : lines[i] = Line(IdStr(ch)),
     lines |-> <<>>]

\* Main.delete_channel_from_file on the lines of watchers.txt
delete_channel_from_file(ch, lines) ==
    LET id_to_remove == Line(IdStr(ch))
        Kept(channel_id) == channel_id # id_to_remove
    IN  [id_found |-> \E i \in DOMAIN lines : lines[i] = id_to_remove,
         lines |-> SelectSeq(lines, Kept)]

\* CanvasUtil.store_course_name_locally: course_name.txt rewritten
store_course_name_locally(course_name) == <<Line(course_name)>>

\* the size of the file is not looked at
IsAnyFile(lines) == TRUE

\* os.stat(path).st_size == 0
IsEmptyFile(lines) == lines = <<>>

\* the event loop can run another coroutine: the pass in the pass variables
\* is at an await
Suspended == pc \in {"sleep", "send"}

\* `!track enable c` in channel ch, lines 98-106: up to the await of ctx.send
TrackEnable(c, ch) ==
    /\ Suspended
    /\ LET r == store_channel_in_file(ch, watchers_txt[c])
       IN  /\ r.added => Cardinality(pending) < MaxPending
           /\ dirs' = ensure_file_exists(c)
           /\ watchers_txt' = [watchers_txt EXCEPT ![c] = r.lines]
           /\ name_txt' =
                [name_txt EXCEPT ![c] = store_course_name_locally(CourseName(c))]
           /\ pending' = IF r.added
                         THEN pending \cup {[course |-> c, channel |-> ch]}
                         ELSE pending
    /\ UNCHANGED <<remote, resolvable, modules_txt, passVars, histVars,
                   batchVars, who, parked, callVars, logVars>>

\* lines 106-110: ctx.send has returned.  os.stat raises FileNotFoundError
\* when the folder was removed in the meantime.
TrackEnableResumes(p) ==
    /\ Suspended
    /\ p \in pending
    /\ pending' = pending \ {p}
    /\ modules_txt' =
         IF CourseDir(p.course) \in dirs /\ IsEmptyFile(modules_txt[p.course])
         THEN [modules_txt EXCEPT
                 ![p.course] = write_modules_to_file(get_modules(remote[p.course]))]
         ELSE modules_txt
    /\ UNCHANGED <<remote, resolvable, dirs, watchers_txt, passVars, histVars,
                   batchVars, name_txt, who, parked, callVars, logVars>>

\* the files are emptied and the folder stays
rmtree_files_only(c) ==
    /\ dirs' = dirs
    /\ modules_txt' = [modules_txt EXCEPT ![c] = <<>>]
    /\ watchers_txt' = [watchers_txt EXCEPT ![c] = <<>>]
    /\ name_txt' = [name_txt EXCEPT ![c] = <<>>]

\* shutil.rmtree(course directory)
rmtree(c) ==
    /\ dirs' = dirs \ {CourseDir(c)}
    /\ modules_txt' = [modules_txt EXCEPT ![c] = <<>>]
    /\ watchers_txt' = [watchers_txt EXCEPT ![c] = <<>>]
    /\ name_txt' = [name_txt EXCEPT ![c] = <<>>]

\* `!track disable c` in channel ch, lines 113-118 (the replies of lines
\* 119-122 change nothing)
TrackDisable(c, ch) ==
    /\ Suspended
    /\ LET r == delete_channel_from_file(ch, watchers_txt[c])
       IN  IF IsEmptyFile(r.lines)
           THEN rmtree(c)
           ELSE /\ dirs' = ensure_file_exists(c)
                /\ watchers_txt' = [watchers_txt EXCEPT ![c] = r.lines]
                /\ UNCHANGED <<modules_txt, name_txt>>
    /\ UNCHANGED <<remote, resolvable, passVars, histVars, batchVars, who,
                   parked, pending, callVars, logVars>>

\* the locals of the pass in the pass variables
Running ==
    [pc |-> pc, courses |-> courses, embeds_to_send |-> embeds_to_send,
     w |-> w, channel |-> channel, next_embed |-> next_embed,
     listing |-> listing, attempted |-> attempted, failed |-> failed,
     cur |-> cur, pre |-> pre, sent |-> sent, given |-> given]

\* The event loop leaves the pass in the pass variables at its await and
\* runs the other one: check_canvas_hourly (periodic_tasks.py:49) and
\* update_courses (commands.py:136) both call check_canvas, and nothing
\* keeps the second from starting while the first awaits a send.
Switch ==
    /\ Suspended
    /\ pc = "send" \/ parked.pc = "send"
    /\ who' = IF who = "hourly" THEN "command" ELSE "hourly"
    /\ parked' = Running
    /\ pc' = parked.pc
    /\ courses' = parked.courses
    /\ embeds_to_send' = parked.embeds_to_send
    /\ w' = parked.w
    /\ channel' = parked.channel
    /\ next_embed' = parked.next_embed
    /\ listing' = parked.listing
    /\ attempted' = parked.attempted
    /\ failed' = parked.failed
    /\ cur' = parked.cur
    /\ pre' = parked.pre
    /\ sent' = parked.sent
    /\ given' = parked.given
    /\ UNCHANGED <<remote, resolvable, diskVars, synced, batchVars, name_txt,
                   pending, callVars, ran>>

\* Nothing is tracked yet; course 1 has nothing or one module with one item
\* published, the other courses one module with one item.
InitCmd ==
    /\ remote \in {r \in [Courses -> {Published(0, 0), Published(1, 1)}] :
                      \A c \in Courses \ {1} : r[c] = Published(1, 1)}
    /\ resolvable = Callers
    /\ dirs = {}
    /\ modules_txt = [c \in Courses |-> <<>>]
    /\ watchers_txt = [c \in Courses |-> <<>>]
    /\ name_txt = [c \in Courses |-> <<>>]
    /\ pc = "sleep"
    /\ courses = <<>>
    /\ embeds_to_send = <<>>
    /\ w = <<>>
    /\ channel = 0
    /\ next_embed = 0
    /\ listing = {}
    /\ attempted = {}
    /\ failed = {}
    /\ cur = NoCourse
    /\ pre = NoFiles
    /\ sent = <<>>
    /\ synced = [c \in Courses |-> FALSE]
    /\ BatchIdle
    /\ CmdIdle
    /\ LogIdle
    /\ CallIdle

NextCmd ==
    \/ \E c \in Courses, ch \in Callers : TrackEnable(c, ch)
    \/ \E p \in pending : TrackEnableResumes(p)
    \/ \E c \in Courses, ch \in Callers : TrackDisable(c, ch)
    \/ StartPass
    \/ Reconcile
    \/ WatchersDone
    \/ ResolveChannel
    \/ SendOk
    \/ EndPass

SpecCmd == InitCmd /\ [][NextCmd]_vars

\* The hourly pass and the pass of `!update_courses` over the tracked courses
\* of Init.
NextPasses ==
    \/ Switch
    \/ StartPass
    \/ SkipFolder
    \/ Reconcile
    \/ WatchersDone
    \/ ResolveChannel
    \/ SendOk
    \/ EndPass

SpecPasses == Init /\ [][NextPasses]_vars

\* One hourly pass and one pass of `!update_courses` at a time, in every
\* interleaving, over the tracked courses of Init, with every failure of a
\* fetch and of a send.

\* a trigger starts its pass: the hourly one when its sleep is over, the
\* other when the command arrives; once each until no pass is in progress
StartOnce ==
    /\ who \notin ran
    /\ StartPass

NextOverlap ==
    \/ Switch
    \/ StartOnce
    \/ SkipFolder
    \/ \E err \in {"transient", "revoked"} : GetCourseFails(err)
    \/ \E err \in {"transient", "revoked"} : TreeFails(err)
    \/ Reconcile
    \/ WatchersDone
    \/ ResolveChannel
    \/ SendOk
    \/ SendFails
    \/ EndPass

SpecOverlap == Init /\ [][NextOverlap]_vars

\* ------------------------------------------------------------ watchers.txt alone
\* Main.store_channel_in_file and Main.delete_channel_from_file called in any
\* order on one watchers.txt, by channels with the ids 1..MaxHandles.

MaxHandles == 3

Handles == 1..MaxHandles

InitCalls ==
    /\ PassIdle
    /\ BatchIdle
    /\ CallIdle

\* added = await self.store_channel_in_file(ctx.channel, watchers_file)
Store(id) ==
    /\ LET r == store_channel_in_file(id, file)
       IN  /\ file' = r.lines
           /\ call' = [op |-> "store", id |-> id, ret |-> r.added,
                       before |-> file]
    /\ last' = call
    /\ UNCHANGED <<remote, resolvable, diskVars, passVars, histVars, batchVars,
                   cmdVars, logVars>>

\* deleted = await self.delete_channel_from_file(ctx.channel, watchers_file)
Delete(id) ==
    /\ LET r == delete_channel_from_file(id, file)
       IN  /\ file' = r.lines
           /\ call' = [op |-> "delete", id |-> id, ret |-> r.id_found,
                       before |-> file]
    /\ last' = call
    /\ UNCHANGED <<remote, resolvable, diskVars, passVars, histVars, batchVars,
                   cmdVars, logVars>>

NextCalls ==
    \/ \E id \in Handles : Store(id)
    \/ \E id \in Handles : Delete(id)

SpecCalls == InitCalls /\ [][NextCalls]_vars

\* ------------------------------------------------------------ rendering alone
\* One new entry with a name or title of 1..MaxTitle characters, handed to
\* update_embed as lines 201-203 / 207-209 do.

MaxTitle == 150

\* a module, a sub header (an item without html_url) or an item with a link
Entry(kind, n) ==
    CASE kind = "module" -> Module(1, Text(Src("name", 0, 0), n))
      [] kind = "subheader" -> ModuleItem(1, Text(Src("name", 0, 0), n), Missing)
      [] OTHER -> ModuleItem(1, Text(Src("name", 0, 0), n),
                             Text(Src("url", 0, 0), 45))

InitRender ==
    /\ PassIdle
    /\ BatchIdle
    /\ CallIdle

Render(kind, n) ==
    /\ fed = <<>>
    /\ LET module == Entry(kind, n)
           u == update_embed(embed, module, num_fields, embed_list,
                             CourseName(1))
       IN  /\ embed' = u.embed
           /\ num_fields' = u.num_fields
           /\ embed_list' = u.embed_list
           /\ fed' = <<module>>
    /\ UNCHANGED <<remote, resolvable, diskVars, passVars, histVars, closed, mix,
                   cmdVars, callVars, logVars>>

NextRender ==
    \E kind \in {"module", "subheader", "item"}, n \in 1..MaxTitle :
        Render(kind, n)

SpecRender == InitRender /\ [][NextRender]_vars

\* ------------------------------------------------------------ properties

\* the course in hand was fetched completely by this pass
FetchedAll == cur.stage \in {"sending", "done", "unresolved", "send_failed"}

\* the string that identifies an entry in modules.txt
Identifier(e) ==
    IF e.cls = "Module" THEN e.name
    ELSE IF e.html_url # Missing THEN e.html_url ELSE e.title

\* the identifiers on the lines of a modules.txt
KnownIds(lines) == {lines[i][1] : i \in DOMAIN lines}

\* C1: a pass over a course whose previous pass fetched the whole tree, with
\* the tree unchanged since, leaves modules.txt as it was and sends nothing.
C1_Idempotent ==
    (FetchedAll /\ cur.repeat) =>
        /\ modules_txt[cur.course] = pre.modules
        /\ embeds_to_send = <<>>
        /\ sent = <<>>
        /\ cur.stage = "done"

C1_Witness ==
    /\ FetchedAll
    /\ cur.repeat
    /\ Len(cur.fetched) > NumModules
    /\ pre.watchers # <<>>

\* C2: the entries a pass hands to update_embed are exactly the fetched
\* entries whose identifier is not on a line of modules.txt, in fetch order.
C2_DiffCorrect ==
    FetchedAll =>
        cur.news = SelectSeq(cur.fetched,
                             LAMBDA e : Identifier(e) \notin KnownIds(pre.modules))

C2_Witness ==
    /\ FetchedAll
    /\ Len(cur.news) >= 2
    /\ \E i \in DOMAIN cur.fetched :
         /\ i > 1
         /\ i < Len(cur.fetched)
         /\ Identifier(cur.fetched[i]) \in KnownIds(pre.modules)
         /\ Identifier(cur.fetched[i - 1]) \notin KnownIds(pre.modules)
         /\ Identifier(cur.fetched[i + 1]) \notin KnownIds(pre.modules)

\* the fields of a list of embeds, in order
RECURSIVE AllFields(_)
AllFields(embeds) ==
    IF embeds = <<>> THEN <<>> ELSE Head(embeds).fields \o AllFields(Tail(embeds))

\* the entry update_embed is to make of a new item
Rendered(e) == [name |-> FieldLabel(e), value |-> get_field_value(e)]

\* C3: the fields of the embeds to send, in order, are the new items, each
\* once and in their order.
C3_BatchesKeepItems ==
    closed => AllFields(embed_list) = [i \in DOMAIN fed |-> Rendered(fed[i])]

\* three embeds or more, one closed on the field count and one on the length
C3_Witness ==
    /\ closed
    /\ Len(embed_list) >= 3
    /\ \E i \in DOMAIN embed_list : Len(embed_list[i].fields) = FIELDS_PER_EMBED
    /\ \E i \in DOMAIN embed_list :
         /\ i < Len(embed_list)
         /\ Len(embed_list[i].fields) < FIELDS_PER_EMBED

\* an entry that fits an embed of its own: title, label and value
Fits(e) ==
    TitleLen(ContinuedEmbed(CourseName(1)).title) + LabelLen(FieldLabel(e))
    + ValueLen(get_field_value(e)) <= EMBED_CHAR_LIMIT

\* C4: when every new entry fits an embed of its own, no embed holds more
\* than 25 fields or more than 6000 characters.
C4_BatchBounds ==
    (\A i \in DOMAIN fed : Fits(fed[i])) =>
        \A i \in DOMAIN embed_list :
            /\ Len(embed_list[i].fields) <= FIELDS_PER_EMBED
            /\ EmbedLen(embed_list[i]) <= EMBED_CHAR_LIMIT

\* an embed with 25 fields, and one closed because the next entry would have
\* taken it past 6000 characters
C4_Witness ==
    /\ closed
    /\ \A i \in DOMAIN fed : Fits(fed[i])
    /\ Oversized(fed) # {}
    /\ \E i \in DOMAIN embed_list : Len(embed_list[i].fields) = FIELDS_PER_EMBED
    /\ \E i \in DOMAIN embed_list :
         /\ i < Len(embed_list)
         /\ Len(embed_list[i].fields) < FIELDS_PER_EMBED
         /\ EmbedLen(embed_list[i]) + LABEL_ALLOWANCE
            + ValueLen(embed_list[i + 1].fields[1].value) > EMBED_CHAR_LIMIT

\* C5: after a pass that fetched the whole tree, modules.txt holds one line
\* per fetched entry, in fetch order, whatever it held before; from an empty
\* file and NumModules modules of ItemsPerModule items each, every entry is
\* new and they go out in a single embed.
C5_SnapshotIsFetch ==
    (FetchedAll /\ pre.watchers # <<>>) =>
        /\ modules_txt[cur.course]
             = [i \in DOMAIN cur.fetched |-> Line(Identifier(cur.fetched[i]))]
        /\ (pre.modules = <<>>
            /\ cur.fetched = Walk(Published(NumModules, ItemsPerModule))) =>
               /\ Len(modules_txt[cur.course]) = NumModules * (1 + ItemsPerModule)
               /\ cur.news = cur.fetched
               /\ Len(embeds_to_send) = 1

C5_Witness ==
    /\ FetchedAll
    /\ pre.watchers # <<>>
    /\ pre.modules = <<>>
    /\ cur.fetched = Walk(Published(NumModules, ItemsPerModule))
    /\ Len(modules_txt[cur.course]) = NumModules * (1 + ItemsPerModule)

\* the try block of the course in hand raised while fetching
FetchFailed == cur.stage \in {"get_course_failed", "tree_failed"}

\* C6 as claimed: a fetch that fails with an error other than access revoked
\* leaves the course's folder, modules.txt and watchers.txt as they were.
C6_TransientLeavesFiles ==
    (FetchFailed /\ cur.err = "transient") => FilesOf(cur.course) = pre

\* C7 as claimed: when a send fails, modules.txt is as it was before the
\* course was taken in hand.
C7_SendFailureKeepsSnapshot ==
    cur.stage = "send_failed" => modules_txt[cur.course] = pre.modules

\* how many messages the pass sent to channel ch for the course in hand
SentTo(ch) == Cardinality({i \in DOMAIN sent : sent[i][1] = ch})

\* the channel ids on the lines of a watchers.txt
ChannelIds(lines) == {ParseInt(lines[i]) : i \in DOMAIN lines}

\* C8 as claimed: when the fetch fails with access revoked, every watcher on
\* file is sent exactly one notice and the course's folder is removed.
C8_RevokedTearsDown ==
    (FetchFailed /\ cur.err = "revoked") =>
        /\ CourseDir(cur.course) \notin dirs
        /\ \A ch \in ChannelIds(pre.watchers) : SentTo(ch) = 1

\* the courses among a collection of folders
CourseIds(folders) == {d.id : d \in {x \in folders : x.isdigit}}

\* C9: throughout a pass every course of the listing has been attempted or
\* is still to be visited, whatever failed before it, and the pass ends with
\* every course attempted.
C9_EveryCourseAttempted ==
    pc # "sleep" =>
        /\ CourseIds(listing) = attempted \cup CourseIds(Range(courses))
        /\ (pc = "loop" /\ courses = <<>>) => attempted = CourseIds(listing)

\* the pass ends after the first course failed and the others were attempted
C9_Witness ==
    /\ pc = "loop"
    /\ courses = <<>>
    /\ 1 \in failed
    /\ attempted = Courses
    /\ cur.course = 2
    /\ cur.stage = "done"

\* C10 as claimed: when the course in hand had embeds to deliver, is finished
\* with and no send failed, a watcher on file that does not resolve is off
\* watchers.txt and was sent nothing, and every watcher that resolves was
\* sent every embed.
C10_DeadWatcherPruned ==
    (cur.stage \in {"done", "unresolved"} /\ embeds_to_send # <<>>) =>
        \A ch \in ChannelIds(pre.watchers) :
            IF ch \in resolvable
            THEN SentTo(ch) = Len(embeds_to_send)
            ELSE /\ ch \notin ChannelIds(watchers_txt[cur.course])
                 /\ SentTo(ch) = 0

\* the indices of the embeds the pass sent to channel ch for the course in
\* hand, in the order they were sent
DeliveredTo(ch) ==
    LET IsTo(m) == m[1] = ch
        mine == SelectSeq(sent, IsTo)
    IN  [i \in DOMAIN mine |-> mine[i][2]]

\* C11 as claimed: when the course in hand had embeds to deliver, is finished
\* with and no send failed, every watcher on file that resolves was sent
\* every embed exactly once, in the order of embeds_to_send.
C11_OrderedDelivery ==
    (cur.stage \in {"done", "unresolved"} /\ embeds_to_send # <<>>) =>
        \A ch \in ChannelIds(pre.watchers) \cap resolvable :
            DeliveredTo(ch) = [i \in 1..Len(embeds_to_send) |-> i]

\* C12 as claimed: a course's folder is on disk exactly when its watchers.txt
\* holds at least one handle.
C12_FolderIffWatched ==
    \A c \in Courses : CourseDir(c) \in dirs <=> watchers_txt[c] # <<>>

\* C13: a `track disable` by the only watcher of a course removes the
\* course's folder with modules.txt, watchers.txt and course_name.txt; a
\* `track disable` that leaves other watchers on file keeps the folder,
\* modules.txt and course_name.txt as they were.
C13_LastWatcherTeardown ==
    [][\A c \in Courses, ch \in Callers :
         TrackDisable(c, ch) =>
           LET on_file == ChannelIds(watchers_txt[c])
           IN  /\ on_file = {ch} =>
                    /\ CourseDir(c) \notin dirs'
                    /\ modules_txt'[c] = <<>>
                    /\ watchers_txt'[c] = <<>>
                    /\ name_txt'[c] = <<>>
               /\ on_file \ {ch} # {} =>
                    /\ CourseDir(c) \in dirs'
                    /\ modules_txt'[c] = modules_txt[c]
                    /\ name_txt'[c] = name_txt[c]
                    /\ ChannelIds(watchers_txt'[c]) = on_file \ {ch}]_vars

\* the only watcher of course 1 disabled tracking while its own `track
\* enable` was still waiting for its reply to be sent: the folder is gone
C13_Witness ==
    /\ [course |-> 1, channel |-> 1] \in pending
    /\ CourseDir(1) \notin dirs

\* the lines of a modules.txt that holds the id of every entry of the tree
IdLines(tree) == [i \in 1..Len(Walk(tree)) |-> Line(IdStr(Walk(tree)[i].id))]

C15_OnePassAtATime == ~(pc # "sleep" /\ parked.pc # "sleep")

\* how many lines of a watchers.txt hold the id
Occurrences(lines, id) ==
    Cardinality({i \in DOMAIN lines : ParseInt(lines[i]) = id})

\* the handles of a watchers.txt other than id, in the order of the file
OtherHandles(lines, id) ==
    LET IsOther(line) == ParseInt(line) # id
        others == SelectSeq(lines, IsOther)
    IN  [i \in DOMAIN others |-> ParseInt(others[i])]

\* C16: store_channel_in_file returns True exactly when the id was not on
\* file and leaves the other handles where they were; called a second time
\* with the same channel it returns False and leaves the file as it was, the
\* id on one line of it.
C16_StoreIdempotent ==
    /\ call.op = "store" =>
         /\ call.ret = (call.id \notin ChannelIds(call.before))
         /\ Occurrences(file, call.id) = 1
         /\ OtherHandles(file, call.id) = OtherHandles(call.before, call.id)
    /\ (call.op = "store" /\ last.op = "store" /\ last.id = call.id) =>
         /\ last.ret = (call.id \notin ChannelIds(last.before))
         /\ call.ret = FALSE
         /\ file = call.before
         /\ OtherHandles(file, call.id) = OtherHandles(last.before, call.id)

\* a channel was stored twice in a row in a file that held two other handles
C16_Witness ==
    /\ call.op = "store"
    /\ last.op = "store"
    /\ last.id = call.id
    /\ last.ret
    /\ Len(last.before) = 2

\* C17: delete_channel_from_file returns True exactly when the id was on
\* file; afterwards the id is not on file and the file holds the other
\* handles in the order they had; with the id not on file, the file is as it
\* was.
C17_DeleteRemovesOne ==
    call.op = "delete" =>
        /\ call.ret = (call.id \in ChannelIds(call.before))
        /\ call.id \notin ChannelIds(file)
        /\ Len(file) = Len(call.before) - Occurrences(call.before, call.id)
        /\ OtherHandles(file, call.id) = OtherHandles(call.before, call.id)
        /\ ~call.ret => file = call.before

\* the handle on the second of three lines was deleted
C17_Witness ==
    /\ call.op = "delete"
    /\ call.ret
    /\ Len(call.before) = 3
    /\ ParseInt(call.before[2]) = call.id
    /\ Len(file) = 2

\* the name of a module, the title of an item
NameOf(module) == IF module.cls = "Module" THEN module.name ELSE module.title

\* C18: the field value of an entry shows the name or title unchanged when it
\* has at most 100 characters and otherwise its first 97 characters and
\* "...", 100 characters in all; an entry with a link has this text wrapped
\* as [text](link) with the whole link, an entry without has the text alone.
C18_Truncation ==
    fed # <<>> =>
        LET module == fed[1]
            name == NameOf(module)
            v == embed.fields[1].value
            shown == StrLen(v.text) + (IF v.ellipsis THEN 3 ELSE 0)
        IN  /\ Len(embed.fields) = 1
            /\ StrLen(name) <= 100 => (v.text = name /\ ~v.ellipsis)
            /\ StrLen(name) > 100 =>
                 /\ v.text = Text(name.src, 97)
                 /\ v.ellipsis
                 /\ shown = 100
            /\ module.html_url # Missing =>
                 /\ v.link = module.html_url
                 /\ ValueLen(v) = shown + 4 + StrLen(module.html_url)
            /\ module.html_url = Missing =>
                 /\ v.link = Missing
                 /\ ValueLen(v) = shown

\* an item with a link and a title of 101 characters was rendered
C18_Witness ==
    /\ fed # <<>>
    /\ fed[1].html_url # Missing
    /\ StrLen(NameOf(fed[1])) = 101
    /\ embed.fields[1].value.ellipsis

\* C19 as claimed: every embed appended to embed_list holds at least one
\* field.
C19_NoEmptyBatch ==
    \A i \in DOMAIN embed_list : embed_list[i].fields # <<>>

\* the handles of a watchers.txt in the order of the file
HandlesOf(lines) == [i \in DOMAIN lines |-> ParseInt(lines[i])]

\* C20: `track enable` leaves every modules.txt as it is up to its reply and
\* keeps the handles on file in their order, adding nothing for a channel
\* already on file; when the reply is sent it writes only the modules.txt of
\* its course, only if that file is empty, and touches no watchers.txt.
C20_EnableKeepsSnapshot ==
    [][/\ \A c \in Courses, ch \in Callers :
            TrackEnable(c, ch) =>
                /\ modules_txt' = modules_txt
                /\ OtherHandles(watchers_txt'[c], ch)
                     = OtherHandles(watchers_txt[c], ch)
                /\ \A d \in Courses \ {c} : watchers_txt'[d] = watchers_txt[d]
                /\ ch \in ChannelIds(watchers_txt[c]) =>
                     /\ watchers_txt' = watchers_txt
                     /\ pending' = pending
       /\ \A p \in pending :
            TrackEnableResumes(p) =>
                /\ watchers_txt' = watchers_txt
                /\ \A d \in Courses :
                     (d # p.course \/ modules_txt[d] # <<>>)
                         => modules_txt'[d] = modules_txt[d]]_vars

\* channel 2 enabled course 1 after channel 1, whose `track enable` had
\* filled modules.txt, and waits for its reply: modules.txt still holds the
\* ids and both handles are on file
C20_Witness ==
    /\ pending = {[course |-> 1, channel |-> 2]}
    /\ HandlesOf(watchers_txt[1]) = <<1, 2>>
    /\ modules_txt[1] # <<>>
    /\ modules_txt[1] = IdLines(remote[1])

\* the lines write_modules_to_file writes for a list of entries
IdLinesOf(entries) == [i \in DOMAIN entries |-> Line(IdStr(entries[i].id))]

\* C21 as claimed: a pass that finds in modules.txt what `track enable` wrote
\* for the tree it fetches reports no entry as new and has no embed to send.
C21_EnableSnapshotAgrees ==
    (/\ FetchedAll
     /\ cur.fetched # <<>>
     /\ pre.modules = IdLinesOf(cur.fetched)) =>
        /\ cur.news = <<>>
        /\ embeds_to_send = <<>>

\* every entry delivered by the pass in the pass variables and by the other
\* one while a pass has been in progress
AllGiven == given \o parked.given

====
